---- MODULE Spec2Model ----
(***************************************************************************)
(* Tree-structured Parzen Estimator (hyperopt/tpe.py).                     *)
(*                                                                         *)
(* Spec       : the orchestrator TreeParzenEstimator.suggest / suggest1,   *)
(*              one call on one engine instance, step by step.             *)
(* SpecForget : TreeParzenEstimator.forget_filter as a function of docs.   *)
(* SpecFilter : ap_filter_trials (the gamma split).                        *)
(* SpecParzen : adaptive_parzen_normal.                                    *)
(*                                                                         *)
(* Reals are modelled exactly: a rational is a pair <<num, den>>, a        *)
(* non-negative sigma is carried by its square.                            *)
(***************************************************************************)
EXTENDS Integers, Sequences, FiniteSets, TLC

\* ---------------------------------------------------------------- bounds
MaxTrials == 2
MaxTid == 2
MaxLoss == 1
MaxStartup == 1
MaxForget == 1
MaxNewIds == 2
MaxDocs == 3
MaxL == 2
GammaDen == 4
MaxObs == 3
MaxObsVal == 2
MaxSigma == 2
MaxPwTenths == 10

\* ------------------------------------------------------ program constants
n_EI_candidates == 1

STATUS_OK == "ok"
STATUS_NEW == "new"
NoFromTid == -1

VARIABLES
    n_startup_jobs,     \* self.n_startup_jobs
    linear_forgetting,  \* self.linear_forgetting
    trials,             \* trials.trials, the list of trial docs
    pc,                 \* position of the suggest call
    new_ids,            \* argument of suggest
    docs,               \* local docs of suggest1
    fake_ids,           \* local fake_ids of suggest1
    self_new_ids,       \* self.new_ids, the instance-level id list
    raised,             \* the exception that ended the call, or "none"
    rval,               \* the returned trial docs
    trace,              \* the steps of suggest1 the call has executed
    args,               \* arguments of the function under study
    out,                \* its return value
    stage               \* "in" before the function has run, "out" after

\* the state of the suggest call, and the state of a function under study
callvars == <<n_startup_jobs, linear_forgetting, trials, pc, new_ids, docs,
              fake_ids, self_new_ids, raised, rval, trace>>
funvars == <<args, out, stage>>
vars == <<callvars, funvars>>

\* ------------------------------------------------------------- helpers
Range(s) == {s[i] : i \in DOMAIN s}

Max(a, b) == IF a >= b THEN a ELSE b

SetMax(S) == CHOOSE x \in S : \A y \in S : y <= x

\* range(a, b)
PyRange(a, b) == [i \in 1..Max(b - a, 0) |-> a + i - 1]

\* the permutations of 1..n, for every length a vector of the model can have
MaxPermLen == Max(Max(MaxTrials, MaxDocs), Max(MaxTid + 1, MaxObs))

PermTable ==
    [n \in 0..MaxPermLen |->
        {p \in [1..n -> 1..n] : \A i, j \in 1..n : i # j => p[i] # p[j]}]

Perms(n) == PermTable[n]

\* np.argsort(v): some permutation that puts v in ascending order; the
\* order among equal values is unspecified for the default sort kind.
ArgSorts(v) ==
    {p \in Perms(Len(v)) : \A i \in 1..(Len(v) - 1) : v[p[i]] <= v[p[i + 1]]}

\* ---------------------------------------------------------- trial docs
Tids == 0..MaxTid
Losses == 0..MaxLoss

\* an OK doc carries a loss and possibly misc.from_tid, the tid of an earlier
\* trial it was derived from; any other doc has no loss yet
TrialDocs ==
    {d \in [tid : Tids, status : {STATUS_OK}, from_tid : {NoFromTid} \cup Tids,
            loss : Losses] : d.from_tid < d.tid}
    \cup [tid : Tids, status : {STATUS_NEW}, from_tid : {NoFromTid}, loss : {0}]

\* bandit.loss(doc['result'], doc['spec'])
BanditLoss(d) == d.loss

\* doc['misc'].get('from_tid', doc['tid'])
GroupTid(d) == IF d.from_tid = NoFromTid THEN d.tid ELSE d.from_tid

\* a uniqueness check that looks at the tids of the OK docs only
NonUniqueOkTids(trs) ==
    LET ok == {i \in DOMAIN trs : trs[i].status = STATUS_OK}
    IN  Cardinality({trs[i].tid : i \in ok}) # Cardinality(ok)

\* len(docs_by_tid) != len(trials.trials)
NonUniqueTids(trs) == Cardinality({trs[i].tid : i \in DOMAIN trs}) # Len(trs)

\* a loop body that keeps the first doc of a tid among equal losses
BestDocsStepFirst(best, doc) ==
    IF doc.status # STATUS_OK THEN best
    ELSE
        LET tid == GroupTid(doc)
            loss == BanditLoss(doc)
        IN  IF tid \notin DOMAIN best.loss \/ loss < best.loss[tid]
            THEN [loss |-> [k \in DOMAIN best.loss \cup {tid} |->
                               IF k = tid THEN loss ELSE best.loss[k]],
                  docs |-> [k \in DOMAIN best.docs \cup {tid} |->
                               IF k = tid THEN doc ELSE best.docs[k]]]
            ELSE best

\* one iteration of the loop over trials.trials; best is the pair of dicts
\* best_docs, best_docs_loss
BestDocsStep(best, doc) ==
    IF doc.status # STATUS_OK THEN best
    ELSE
        LET tid == GroupTid(doc)
            loss == BanditLoss(doc)
            \* best_docs_loss.setdefault(tid, loss)
            bdl == IF tid \in DOMAIN best.loss THEN best.loss
                   ELSE [k \in DOMAIN best.loss \cup {tid} |->
                            IF k = tid THEN loss ELSE best.loss[k]]
        IN  IF loss <= bdl[tid]
            THEN [loss |-> [bdl EXCEPT ![tid] = loss],
                  docs |-> [k \in DOMAIN best.docs \cup {tid} |->
                               IF k = tid THEN doc ELSE best.docs[k]]]
            ELSE [loss |-> bdl, docs |-> best.docs]

RECURSIVE BestDocsLoop(_, _, _)
BestDocsLoop(trs, i, best) ==
    IF i > Len(trs) THEN best
    ELSE BestDocsLoop(trs, i + 1, BestDocsStep(best, trs[i]))

EmptyBest == [loss |-> << >>, docs |-> << >>]

BestDocs(trs) == BestDocsLoop(trs, 1, EmptyBest)

\* docs = best_docs.items(); docs.sort(); docs = [v for k, v in docs]
RECURSIVE SortedItems(_, _)
SortedItems(bd, keys) ==
    IF keys = {} THEN << >>
    ELSE LET k == CHOOSE x \in keys : \A y \in keys : x <= y
         IN  <<bd[k]>> \o SortedItems(bd, keys \ {k})

DedupDocs(trs) == LET bd == BestDocs(trs).docs IN SortedItems(bd, DOMAIN bd)

\* forget_filter: if self.linear_forgetting and len(docs) > self.linear_forgetting
ForgetApplies(L, ds) == L # 0 /\ Len(ds) > L

\* a slice that takes the end of best_order
ForgetKeepWorst(L, ds, best_order) ==
    [i \in 1..L |-> ds[best_order[Len(ds) - L + i]]]

\* forget_filter: [docs[ii] for ii in best_order[:self.linear_forgetting]]
ForgetKeep(L, ds, best_order) == [i \in 1..L |-> ds[best_order[i]]]

\* the results forget_filter can return for docs ds
ForgetFilter(L, ds) ==
    IF ForgetApplies(L, ds)
    THEN {ForgetKeep(L, ds, o) :
            o \in ArgSorts([i \in DOMAIN ds |-> BanditLoss(ds[i])])}
    ELSE {ds}

\* a fake_id_0 that forgets the new id when there are docs
FakeId0TidsOnly(tids, new_id) ==
    IF tids # << >> THEN SetMax(Range(tids)) + 2 ELSE new_id + 2

\* fake_id_0 and fake_ids of suggest1
FakeId0(tids, new_id) ==
    IF tids # << >> THEN Max(SetMax(Range(tids)), new_id) + 2 ELSE new_id + 2

FakeIds(tids, new_id) ==
    PyRange(FakeId0(tids, new_id), FakeId0(tids, new_id) + n_EI_candidates)

\* BanditAlgo.suggest: the prior sampler, one doc bound to the new id
PriorSuggest(ids) == [i \in DOMAIN ids |-> [tid |-> ids[i], by |-> "prior"]]

\* trials.new_trial_docs(new_ids, ...) at the end of suggest1
NewTrialDocs(ids) == [i \in DOMAIN ids |-> [tid |-> ids[i], by |-> "tpe"]]

\* a guard that lets two ids through
TooManyIdsOff(ids) == Len(ids) > 2

\* suggest: if len(new_ids) > 1
TooManyIds(ids) == Len(ids) > 1

\* a warm-up test that is off by one
InStartupLe(ds, n_startup) == Len(ds) <= n_startup

\* suggest1: if len(docs) < self.n_startup_jobs
InStartup(ds, n_startup) == Len(ds) < n_startup

\* ------------------------------------------------------------ suggest
\* the new ids a caller asks for: one id, or the first n >= 2 ids
NewIdSeqs ==
    {<<a>> : a \in 0..(MaxTid + 1)} \cup {PyRange(0, n) : n \in 2..MaxNewIds}

NoFun == args = << >> /\ out = << >> /\ stage = "none"

Init ==
    /\ n_startup_jobs \in 0..MaxStartup
    /\ linear_forgetting \in 0..MaxForget
    /\ trials = << >>
    /\ pc = "idle"
    /\ new_ids = << >>
    /\ docs = << >>
    /\ fake_ids = << >>
    /\ self_new_ids = << >>
    /\ raised = "none"
    /\ rval = << >>
    /\ trace = {}
    /\ NoFun

\* the trial store gains a doc (between suggest calls)
InsertTrial ==
    /\ pc = "idle"
    /\ Len(trials) < MaxTrials
    /\ \E d \in TrialDocs : trials' = Append(trials, d)
    /\ UNCHANGED <<n_startup_jobs, linear_forgetting, pc, new_ids, docs,
                   fake_ids, self_new_ids, raised, rval, trace>>
    /\ UNCHANGED funvars

\* suggest(new_ids, trials)
Suggest ==
    /\ pc = "idle"
    /\ \E ids \in NewIdSeqs :
        /\ new_ids' = ids
        /\ IF TooManyIds(ids)
           THEN /\ raised' = "NotImplementedError"
                /\ pc' = "raised"
                /\ trace' = trace
           ELSE /\ raised' = raised
                /\ pc' = "suggest1"
                /\ trace' = trace \cup {"suggest1"}
    /\ UNCHANGED <<n_startup_jobs, linear_forgetting, trials, docs, fake_ids,
                   self_new_ids, rval>>
    /\ UNCHANGED funvars

\* suggest1: the check that tids are unique
CheckUnique ==
    /\ pc = "suggest1"
    /\ IF NonUniqueTids(trials)
       THEN /\ raised' = "AssertionError"
            /\ pc' = "raised"
       ELSE /\ raised' = raised
            /\ pc' = "dedup"
    /\ trace' = trace \cup {"unique"}
    /\ UNCHANGED <<n_startup_jobs, linear_forgetting, trials, new_ids, docs,
                   fake_ids, self_new_ids, rval>>
    /\ UNCHANGED funvars

\* suggest1: the loop that keeps the best doc per tid, and the sort
Dedup ==
    /\ pc = "dedup"
    /\ docs' = DedupDocs(trials)
    /\ pc' = "startup"
    /\ trace' = trace \cup {"dedup"}
    /\ UNCHANGED <<n_startup_jobs, linear_forgetting, trials, new_ids,
                   fake_ids, self_new_ids, raised, rval>>
    /\ UNCHANGED funvars

\* suggest1: if len(docs) < self.n_startup_jobs: return BanditAlgo.suggest
Startup ==
    /\ pc = "startup"
    /\ IF InStartup(docs, n_startup_jobs)
       THEN /\ rval' = PriorSuggest(new_ids)
            /\ pc' = "done"
            /\ trace' = trace \cup {"prior"}
       ELSE /\ rval' = rval
            /\ pc' = "forget"
            /\ trace' = trace
    /\ UNCHANGED <<n_startup_jobs, linear_forgetting, trials, new_ids, docs,
                   fake_ids, self_new_ids, raised>>
    /\ UNCHANGED funvars

\* suggest1: docs = self.forget_filter(docs)
Forget ==
    /\ pc = "forget"
    /\ docs' \in ForgetFilter(linear_forgetting, docs)
    /\ pc' = "fake"
    /\ trace' = trace \cup {"forget"}
    /\ UNCHANGED <<n_startup_jobs, linear_forgetting, trials, new_ids,
                   fake_ids, self_new_ids, raised, rval>>
    /\ UNCHANGED funvars

\* suggest1: tids, fake_id_0, fake_ids, self.new_ids[:] = fake_ids
ChooseFakeIds ==
    /\ pc = "fake"
    /\ LET tids == [i \in DOMAIN docs |-> docs[i].tid]
       IN  /\ fake_ids' = FakeIds(tids, new_ids[1])
           /\ self_new_ids' = FakeIds(tids, new_ids[1])
    /\ pc' = "eval"
    /\ trace' = trace \cup {"fake"}
    /\ UNCHANGED <<n_startup_jobs, linear_forgetting, trials, new_ids, docs,
                   raised, rval>>
    /\ UNCHANGED funvars

\* suggest1: memo, refine_no_grad, rec_eval, new_trial_docs
Evaluate ==
    /\ pc = "eval"
    /\ IF n_EI_candidates > 1
       THEN /\ raised' = "NotImplementedError"
            /\ pc' = "raised"
            /\ rval' = rval
       ELSE /\ raised' = raised
            /\ pc' = "done"
            /\ rval' = NewTrialDocs(new_ids)
    /\ trace' = trace \cup {"memo", "refine"}
    /\ UNCHANGED <<n_startup_jobs, linear_forgetting, trials, new_ids, docs,
                   fake_ids, self_new_ids>>
    /\ UNCHANGED funvars

Next ==
    \/ InsertTrial
    \/ Suggest
    \/ CheckUnique
    \/ Dedup
    \/ Startup
    \/ Forget
    \/ ChooseFakeIds
    \/ Evaluate

Spec == Init /\ [][Next]_vars

\* ------------------------------------------------------------------------
\* Properties of suggest / suggest1 (specification Spec)
\* ------------------------------------------------------------------------
OkIdx == {i \in DOMAIN trials : trials[i].status = STATUS_OK}

\* the indexes of the OK trials of group g
GroupIdx(g) == {i \in OkIdx : GroupTid(trials[i]) = g}

Groups == {GroupTid(trials[i]) : i \in OkIdx}

\* the indexes of the docs of group g that have the least loss of the group
MinLossIdx(g) ==
    {i \in GroupIdx(g) : \A j \in GroupIdx(g) : trials[i].loss <= trials[j].loss}

SetMin(S) == CHOOSE x \in S : \A y \in S : x <= y

LaterSteps == {"forget", "fake", "memo", "refine"}

\* C1: once suggest1 has checked a trial set in which two docs carry the same
\* tid, the call has ended with the assertion error (DataCorruption), has
\* returned nothing and has neither deduplicated nor asked the prior sampler,
\* whatever the statuses of the docs and the value of n_startup_jobs.
C1_DuplicateTidAborts ==
    ("unique" \in trace /\ \E i, j \in DOMAIN trials :
                               i # j /\ trials[i].tid = trials[j].tid)
        => /\ pc = "raised"
           /\ raised = "AssertionError"
           /\ rval = << >>
           /\ trace = {"suggest1", "unique"}

\* C1 witness: a call aborted on two non-OK docs of one tid, with no usable
\* doc at all and n_startup_jobs > 0 (the warm-up case).
C1_Witness ==
    /\ pc = "raised" /\ raised = "AssertionError"
    /\ Len(trials) = 2 /\ trials[1].tid = trials[2].tid
    /\ OkIdx = {}
    /\ n_startup_jobs > 0

\* what deduplication has in common under either tie rule: the docs right
\* after the loop are OK trials, one per group, each of the least loss of its
\* group
DedupKeepsMinPerGroup ==
    /\ Len(docs) = Cardinality(Groups)
    /\ \A k \in DOMAIN docs :
          \E i \in OkIdx :
              docs[k] = trials[i] /\ i \in MinLossIdx(GroupTid(trials[i]))
    /\ \A g \in Groups :
          Cardinality({k \in DOMAIN docs : GroupTid(docs[k]) = g}) = 1

\* C2 as stated: right after deduplication docs holds one least-loss OK doc
\* per group and, among equal least losses, the doc met FIRST in the trials.
C2_Original_TieFirst ==
    pc = "startup" =>
        /\ DedupKeepsMinPerGroup
        /\ \A g \in Groups : trials[SetMin(MinLossIdx(g))] \in Range(docs)

\* C2 as amended: right after deduplication docs holds one least-loss OK doc
\* per group and, among equal least losses, the doc met LAST in the trials.
C2_TieLast ==
    pc = "startup" =>
        /\ DedupKeepsMinPerGroup
        /\ \A g \in Groups : trials[SetMax(MinLossIdx(g))] \in Range(docs)

\* C2 witness: two OK docs of one group with the same loss, the later one
\* retained.
C2_Witness ==
    /\ pc = "startup"
    /\ Len(trials) = 2 /\ OkIdx = {1, 2}
    /\ GroupTid(trials[1]) = GroupTid(trials[2])
    /\ trials[1].loss = trials[2].loss
    /\ docs = <<trials[2]>>

\* C3: once suggest1 has taken the warm-up decision, the call has returned the
\* prior sampler's docs and run no later step if the usable docs (one per
\* group of OK trials) are fewer than n_startup_jobs, and has never asked the
\* prior sampler otherwise.
C3_WarmUp ==
    ("dedup" \in trace /\ pc # "startup") =>
        IF Cardinality(Groups) < n_startup_jobs
        THEN /\ pc = "done"
             /\ rval = PriorSuggest(new_ids)
             /\ "prior" \in trace
             /\ trace \cap LaterSteps = {}
        ELSE /\ "prior" \notin trace
             /\ pc = "done" => rval = NewTrialDocs(new_ids)

\* C3 witness: a warm-up return on a trial set that is not empty.
C3_Witness ==
    /\ pc = "done" /\ "prior" \in trace
    /\ trials # << >>
    /\ rval = <<[tid |-> new_ids[1], by |-> "prior"]>>

\* C5 as stated: every fake tid is greater than the new id and than the tid of
\* every trial of the input trial set.
C5_Original_AboveEveryTrial ==
    "fake" \in trace =>
        \A k \in DOMAIN fake_ids :
            /\ fake_ids[k] > new_ids[1]
            /\ \A i \in DOMAIN trials : fake_ids[k] > trials[i].tid

\* C5 as amended: every fake tid is greater than the new id and than the tid
\* of every doc that is left after deduplication and forgetting (so it is
\* above every trial when no trial has a tid above the new id + 1).
C5_AboveNewIdAndKeptDocs ==
    "fake" \in trace =>
        /\ fake_ids # << >>
        /\ \A k \in DOMAIN fake_ids :
            /\ fake_ids[k] > new_ids[1]
            /\ \A i \in DOMAIN docs : fake_ids[k] > docs[i].tid
            /\ (\A i \in DOMAIN trials : trials[i].tid <= new_ids[1] + 1)
                  => \A i \in DOMAIN trials : fake_ids[k] > trials[i].tid

\* C5 witness: fake ids chosen in the model phase while a trial was left out
\* of docs and the new id is above the tids of the docs.
C5_Witness ==
    /\ "fake" \in trace
    /\ docs # << >> /\ Len(docs) < Len(trials)
    /\ \A i \in DOMAIN docs : docs[i].tid < new_ids[1]

\* C6: a suggest call with more than one new id has ended with
\* NotImplementedError before any step of suggest1 and has returned nothing;
\* a call with exactly one new id has entered suggest1.
C6_OneNewIdOnly ==
    pc # "idle" =>
        IF Len(new_ids) # 1
        THEN /\ pc = "raised" /\ raised = "NotImplementedError"
             /\ trace = {} /\ rval = << >>
        ELSE "suggest1" \in trace

\* C6 witness: a call with two new ids on a non-empty trial set, refused.
C6_Witness ==
    /\ pc = "raised" /\ raised = "NotImplementedError"
    /\ Len(new_ids) = 2 /\ trials # << >>

\* ------------------------------------------------------------------------
\* forget_filter as a function of its docs (specification SpecForget)
\* ------------------------------------------------------------------------
\* no suggest call is in progress
CallIdle ==
    /\ n_startup_jobs = 0
    /\ linear_forgetting = 0
    /\ trials = << >>
    /\ pc = "idle"
    /\ new_ids = << >>
    /\ docs = << >>
    /\ fake_ids = << >>
    /\ self_new_ids = << >>
    /\ raised = "none"
    /\ rval = << >>
    /\ trace = {}

\* the docs forget_filter is given: OK docs, in any order
OkDocs == [tid : Tids, status : {STATUS_OK}, from_tid : {NoFromTid}, loss : Losses]

DocSeqs == UNION {[1..n -> OkDocs] : n \in 0..MaxDocs}

InitForget ==
    /\ CallIdle
    /\ args \in [linear_forgetting : 0..MaxL, docs : DocSeqs]
    /\ out = << >>
    /\ stage = "in"

\* self.forget_filter(docs)
CallForgetFilter ==
    /\ stage = "in"
    /\ out' \in ForgetFilter(args.linear_forgetting, args.docs)
    /\ stage' = "out"
    /\ UNCHANGED <<args, callvars>>

NextForget == CallForgetFilter

SpecForget == InitForget /\ [][NextForget]_vars

\* ------------------------------------------------------------------------
\* ap_filter_trials (specification SpecFilter)
\* ------------------------------------------------------------------------
\* a rational number num/den, den > 0
Gammas == {<<k, GammaDen>> : k \in 1..(GammaDen - 1)}

\* a floor in place of the ceiling
ApNBelowFloor(gamma, l_vals) == (gamma[1] * Len(l_vals)) \div gamma[2]

\* n_below = int(np.ceil(gamma * len(l_vals)))
ApNBelow(gamma, l_vals) ==
    (gamma[1] * Len(l_vals) + gamma[2] - 1) \div gamma[2]

\* keep_idxs = set(l_idxs[l_order[n_below:]]) or set(l_idxs[l_order[:n_below]])
ApKeepIdxs(l_idxs, l_order, n_below, above_or_below) ==
    IF above_or_below = "above_gamma"
    THEN {l_idxs[l_order[i]] : i \in (n_below + 1)..Len(l_order)}
    ELSE {l_idxs[l_order[i]] : i \in 1..n_below}

\* (i, v) <= (j, w) as Python orders tuples
PairLe(a, b) == a[1] < b[1] \/ (a[1] = b[1] /\ a[2] <= b[2])

\* rval_iv.sort(); rval = [v for i, v in rval_iv], over the positions P of
\* the pairs kept
RECURSIVE SortedVals(_, _, _)
SortedVals(o_idxs, o_vals, P) ==
    IF P = {} THEN << >>
    ELSE LET k == CHOOSE x \in P : \A y \in P :
                      PairLe(<<o_idxs[x], o_vals[x]>>, <<o_idxs[y], o_vals[y]>>)
         IN  <<o_vals[k]>> \o SortedVals(o_idxs, o_vals, P \ {k})

\* ap_filter_trials, given the order np.argsort(l_vals) returned; the result
\* carries keep_idxs along with the returned values
ApFilterTrials(o_idxs, o_vals, l_idxs, l_vals, gamma, above_or_below, l_order) ==
    LET n_below == ApNBelow(gamma, l_vals)
        keep_idxs == ApKeepIdxs(l_idxs, l_order, n_below, above_or_below)
        kept == {k \in DOMAIN o_idxs : o_idxs[k] \in keep_idxs}
    IN  [keep_idxs |-> keep_idxs, rval |-> SortedVals(o_idxs, o_vals, kept)]

\* the loss tids: pairwise distinct, in the order of the docs
InjSeqs(S, n) == {q \in [1..n -> S] : \A i, j \in 1..n : i # j => q[i] # q[j]}

\* the subsequence of q at the positions P
RECURSIVE SubSeqAt(_, _)
SubSeqAt(q, P) ==
    IF P = {} THEN << >>
    ELSE LET k == CHOOSE x \in P : \A y \in P : x <= y
         IN  <<q[k]>> \o SubSeqAt(q, P \ {k})

\* the value the parameter took in the trial of tid t
ObsValAt(t) == 10 - t

NoFilterOut == [l_order |-> << >>, below |-> << >>, above |-> << >>]

\* the losses of n docs at pairwise distinct tids, and the observations of
\* one parameter: the tids of the docs at which it is active, in the order of
\* the docs, and its value at each
InitFilter ==
    /\ CallIdle
    /\ \E n \in 0..(MaxTid + 1) :
        \E li \in InjSeqs(Tids, n), lv \in [1..n -> Losses], g \in Gammas,
           P \in SUBSET (1..n) :
            LET oi == SubSeqAt(li, P)
            IN  args = [l_idxs |-> li, l_vals |-> lv, gamma |-> g,
                        o_idxs |-> oi,
                        o_vals |-> [k \in DOMAIN oi |-> ObsValAt(oi[k])]]
    /\ out = NoFilterOut
    /\ stage = "in"

\* build_posterior for 'below_gamma': ap_filter_trials(..., 'below_gamma')
FilterBelow ==
    /\ stage = "in"
    /\ \E l_order \in ArgSorts(args.l_vals) :
          out' = [out EXCEPT
                    !.l_order = l_order,
                    !.below = ApFilterTrials(args.o_idxs, args.o_vals,
                                 args.l_idxs, args.l_vals, args.gamma,
                                 "below_gamma", l_order)]
    /\ stage' = "below"
    /\ UNCHANGED <<args, callvars>>

\* build_posterior for 'above_gamma': ap_filter_trials(..., 'above_gamma');
\* np.argsort is a function, it returns the order it returned before
FilterAbove ==
    /\ stage = "below"
    /\ out' = [out EXCEPT
                 !.above = ApFilterTrials(args.o_idxs, args.o_vals,
                               args.l_idxs, args.l_vals, args.gamma,
                               "above_gamma", out.l_order)]
    /\ stage' = "out"
    /\ UNCHANGED <<args, callvars>>

NextFilter ==
    \/ FilterBelow
    \/ FilterAbove

SpecFilter == InitFilter /\ [][NextFilter]_vars

\* ------------------------------------------------------------------------
\* Properties of forget_filter (specification SpecForget)
\* ------------------------------------------------------------------------
\* r holds the docs of ds at the positions S, each once, in some order
ArrangementOf(r, ds, S) ==
    /\ Len(r) = Cardinality(S)
    /\ \E p \in [DOMAIN r -> S] :
          /\ \A i, j \in DOMAIN r : i # j => p[i] # p[j]
          /\ \A i \in DOMAIN r : r[i] = ds[p[i]]

\* C4: with linear_forgetting = L > 0 the list forget_filter returns has at
\* most L docs, they are docs of the input (each input doc used at most once)
\* and no doc left out has a smaller loss than a doc kept; when more than L
\* docs come in exactly L are kept; with L = 0 or len(docs) <= L the list is
\* returned unchanged.
C4_ForgetKeepsLowest ==
    stage = "out" =>
        LET L == args.linear_forgetting
            ds == args.docs
        IN  IF L = 0 \/ Len(ds) <= L
            THEN out = ds
            ELSE /\ Len(out) = L
                 /\ \E S \in SUBSET DOMAIN ds :
                       /\ ArrangementOf(out, ds, S)
                       /\ \A i \in S, j \in DOMAIN ds \ S :
                             ds[i].loss <= ds[j].loss

\* C4 witness: three docs, L = 2, the doc of the highest loss comes first and
\* is the one left out.
C4_Witness ==
    /\ stage = "out"
    /\ args.linear_forgetting = 2 /\ Len(args.docs) = 3
    /\ args.docs[1].loss > args.docs[2].loss
    /\ args.docs[1].loss > args.docs[3].loss
    /\ Len(out) = 2 /\ args.docs[1] \notin Range(out)

\* ------------------------------------------------------------------------
\* Properties of ap_filter_trials (specification SpecFilter)
\* ------------------------------------------------------------------------
\* the loss recorded for tid t
LossOfTid(t) == args.l_vals[CHOOSE i \in DOMAIN args.l_idxs : args.l_idxs[i] = t]

\* k is the ceiling of gamma * n
IsCeil(k, gamma, n) ==
    /\ k * gamma[2] >= gamma[1] * n
    /\ (k - 1) * gamma[2] < gamma[1] * n

\* C7: for N losses at pairwise distinct tids the tids kept for 'below_gamma'
\* are ceil(gamma N) many, those kept for 'above_gamma' are the other
\* N - ceil(gamma N), the two sets are disjoint, no below tid has a greater
\* loss than an above tid, and for a parameter observed at every tid the two
\* value vectors have these lengths.
C7_GammaSplit ==
    stage = "out" =>
        LET N == Len(args.l_vals)
            B == out.below.keep_idxs
            A == out.above.keep_idxs
        IN  /\ IsCeil(Cardinality(B), args.gamma, N)
            /\ Cardinality(A) = N - Cardinality(B)
            /\ A \cap B = {}
            /\ A \cup B = Range(args.l_idxs)
            /\ \A b \in B, a \in A : LossOfTid(b) <= LossOfTid(a)
            /\ Range(args.o_idxs) = Range(args.l_idxs)
                  => /\ Len(out.below.rval) = Cardinality(B)
                     /\ Len(out.above.rval) = N - Cardinality(B)

\* C7 witness: three losses with a tie across the cut, gamma = 1/2 (two below,
\* one above), the parameter observed at every tid.
C7_Witness ==
    /\ stage = "out"
    /\ Len(args.l_vals) = 3 /\ args.gamma[1] * 2 = args.gamma[2]
    /\ args.l_vals[2] = args.l_vals[3] /\ args.l_vals[1] < args.l_vals[2]
    /\ Len(args.o_idxs) = 3
    /\ Cardinality(out.below.keep_idxs) = 2 /\ Len(out.above.rval) = 1

\* ------------------------------------------------------------------------
\* adaptive_parzen_normal (specification SpecParzen)
\* ------------------------------------------------------------------------
\* A float is a rational <<num, den>> with den > 0; <<0, 0>> is NaN, the
\* value of 0.0 / 0.0.
NaN == <<0, 0>>

Rat(n) == <<n, 1>>

RECURSIVE Gcd(_, _)
Gcd(a, b) == IF b = 0 THEN a ELSE Gcd(b, a % b)

\* the same number in lowest terms
Norm(r) ==
    IF r[2] = 0 THEN r
    ELSE LET g == Gcd(r[1], r[2]) IN <<r[1] \div g, r[2] \div g>>

RatAdd(a, b) == Norm(<<a[1] * b[2] + b[1] * a[2], a[2] * b[2]>>)

RatMul(a, b) == Norm(<<a[1] * b[1], a[2] * b[2]>>)

\* a / b for a, b >= 0
RatDiv(a, b) == IF b[1] = 0 THEN NaN ELSE Norm(<<a[1] * b[2], a[2] * b[1]>>)

\* a == b as floats compare: NaN equals nothing
RatEq(a, b) == a[2] # 0 /\ b[2] # 0 /\ a[1] * b[2] = b[1] * a[2]

RatLt(a, b) == a[1] * b[2] < b[1] * a[2]

RECURSIVE RatSum(_)
RatSum(w) == IF w = << >> THEN Rat(0) ELSE RatAdd(w[1], RatSum(Tail(w)))

\* the inverse of the permutation order
Inverse(order) ==
    [j \in DOMAIN order |-> CHOOSE i \in DOMAIN order : order[i] = j]

\* a write-back that leaves the vector in sorted order
NoUnsort(v, order) == v

\* v[order] = v.copy()
Unsort(v, order) == [j \in DOMAIN v |-> v[Inverse(order)[j]]]

\* sigma of the sorted observations mus, len(mus) >= 2
SortedSigma(mus) ==
    LET n == Len(mus)
        lsigma == IF n > 2 THEN mus[3] - mus[1] ELSE mus[2] - mus[1]
        usigma == IF n > 2 THEN mus[n] - mus[n - 2] ELSE mus[n] - mus[n - 1]
    IN  [i \in 1..n |->
            IF i = n THEN usigma
            ELSE IF i = 1 THEN lsigma
            ELSE Max(mus[i] - mus[i - 1], mus[i + 1] - mus[i])]

\* the branches on len(mus): the means and the sigmas before clipping, for
\* the order np.argsort(mus) returned
ParzenMusSigma(mus, prior_mu, prior_sigma, order) ==
    IF Len(mus) = 0
    THEN [mus |-> <<prior_mu>>, sigma |-> <<Rat(prior_sigma)>>]
    ELSE IF Len(mus) = 1
    THEN [mus |-> <<mus[1], prior_mu>>,
          sigma |-> <<<<prior_sigma, 2>>, Rat(prior_sigma)>>]
    ELSE LET srt == [i \in DOMAIN mus |-> mus[order[i]]]
             sig == SortedSigma(srt)
             usig == Unsort(sig, order)
         IN  [mus |-> Unsort(srt, order) \o <<prior_mu>>,
              sigma |-> [i \in DOMAIN mus |-> Rat(usig[i])]
                            \o <<Rat(prior_sigma)>>]

\* a clip with no lower limit
ClipSigmaNoMin(sigma, prior_sigma, len_mus) ==
    IF RatLt(Rat(prior_sigma), sigma) THEN <<prior_sigma * prior_sigma, 1>>
    ELSE <<sigma[1] * sigma[1], sigma[2] * sigma[2]>>

\* np.clip(sigma, minsigma, maxsigma) for one sigma >= 0, with
\* maxsigma = prior_sigma and minsigma = prior_sigma / sqrt(1 + len(mus));
\* the result is given by its square
ClipSigma(sigma, prior_sigma, len_mus) ==
    LET sq == <<sigma[1] * sigma[1], sigma[2] * sigma[2]>>
        minsq == <<prior_sigma * prior_sigma, 1 + len_mus>>
        maxsq == <<prior_sigma * prior_sigma, 1>>
    IN  IF RatLt(sq, minsq) THEN minsq
        ELSE IF RatLt(maxsq, sq) THEN maxsq
        ELSE sq

\* weights = 1 + arange(len(mus)); weights[-1] -= 1;
\* weights[-1] *= prior_weight; weights / weights.sum()
ParzenWeights(len_mus, prior_weight) ==
    LET w == [i \in 1..len_mus |->
                 IF i = len_mus THEN RatMul(Rat(i - 1), prior_weight)
                 ELSE Rat(i)]
    IN  [i \in 1..len_mus |-> RatDiv(w[i], RatSum(w))]

\* adaptive_parzen_normal, for the order np.argsort(mus) returned; sigma is
\* returned as its square
AdaptiveParzenNormal(mus, prior_weight, prior_mu, prior_sigma, order) ==
    LET ms == ParzenMusSigma(mus, prior_mu, prior_sigma, order)
    IN  [weights |-> ParzenWeights(Len(ms.mus), prior_weight),
         mus |-> ms.mus,
         sigma2 |-> [i \in DOMAIN ms.sigma |->
                        ClipSigma(ms.sigma[i], prior_sigma, Len(ms.mus))]]

PriorWeights == {<<k, 10>> : k \in 0..MaxPwTenths}

ObsSeqs == UNION {[1..n -> 0..MaxObsVal] : n \in 0..MaxObs}

InitParzen ==
    /\ CallIdle
    /\ args \in [mus : ObsSeqs, prior_weight : PriorWeights,
                 prior_mu : 0..MaxObsVal, prior_sigma : 1..MaxSigma]
    /\ out = << >>
    /\ stage = "in"

\* scope.adaptive_parzen_normal(obs, prior_weight, prior_mu, prior_sigma)
CallAdaptiveParzenNormal ==
    /\ stage = "in"
    /\ \E order \in ArgSorts(args.mus) :
          out' = AdaptiveParzenNormal(args.mus, args.prior_weight,
                     args.prior_mu, args.prior_sigma, order)
    /\ stage' = "out"
    /\ UNCHANGED <<args, callvars>>

NextParzen == CallAdaptiveParzenNormal

SpecParzen == InitParzen /\ [][NextParzen]_vars

\* ------------------------------------------------------------------------
\* Properties of adaptive_parzen_normal (specification SpecParzen)
\* ------------------------------------------------------------------------
PriorSigma2 == <<args.prior_sigma * args.prior_sigma, 1>>

\* C8 as stated: with no observation the result is one component of weight 1,
\* mean prior_mu and sigma prior_sigma.
C8_EmptyObsIsPrior ==
    (stage = "out" /\ Len(args.mus) = 0) =>
        /\ Len(out.weights) = 1 /\ RatEq(out.weights[1], Rat(1))
        /\ out.mus = <<args.prior_mu>>
        /\ Len(out.sigma2) = 1 /\ RatEq(out.sigma2[1], PriorSigma2)

\* C9 as stated: with one observation the weights are (1/2, 1/2), the means
\* (obs[0], prior_mu) and the sigmas (prior_sigma / 2, prior_sigma).
C9_Original_HalfHalf ==
    (stage = "out" /\ Len(args.mus) = 1) =>
        /\ Len(out.weights) = 2
        /\ RatEq(out.weights[1], <<1, 2>>) /\ RatEq(out.weights[2], <<1, 2>>)
        /\ out.mus = <<args.mus[1], args.prior_mu>>
        /\ Len(out.sigma2) = 2
        /\ RatEq(out.sigma2[1], <<args.prior_sigma * args.prior_sigma, 4>>)
        /\ RatEq(out.sigma2[2], PriorSigma2)

\* C9 as amended: with one observation the weights are
\* (1 / (1 + prior_weight), prior_weight / (1 + prior_weight)), the means
\* (obs[0], prior_mu) and the sigmas (prior_sigma / sqrt(3), prior_sigma).
C9_OneObs ==
    (stage = "out" /\ Len(args.mus) = 1) =>
        LET pw == args.prior_weight
            total == RatAdd(Rat(1), pw)
        IN  /\ Len(out.weights) = 2
            /\ RatEq(RatMul(out.weights[1], total), Rat(1))
            /\ RatEq(RatMul(out.weights[2], total), pw)
            /\ out.mus = <<args.mus[1], args.prior_mu>>
            /\ Len(out.sigma2) = 2
            /\ RatEq(out.sigma2[1], <<args.prior_sigma * args.prior_sigma, 3>>)
            /\ RatEq(out.sigma2[2], PriorSigma2)

\* C9 witness: one observation under the default prior_weight 0.3.
C9_Witness ==
    /\ stage = "out" /\ Len(args.mus) = 1
    /\ args.prior_weight = <<3, 10>>
    /\ args.mus[1] # args.prior_mu
    /\ RatEq(out.weights[1], <<10, 13>>)

MaxDraw == 2

\* quantisation steps are 1..MaxQ
MaxQ == 2

\* n_samples = np.prod(size) ranges over 1..MaxSamples
MaxSamples == 1

\* the caller's maximum number of attempts, scaled down from 10^4
MaxAttempts == 3

\* q=None
NoQ == 0

\* np.exp on the grid of the model: a strictly increasing, strictly positive
\* function of the integers (base 2 stands for base e)
Exp(z) == IF z >= 0 THEN <<2 ^ z, 1>> ELSE <<1, 2 ^ (0 - z)>>

\* np.ceil of a rational with a positive denominator
Ceil(r) == 0 - ((0 - r[1]) \div r[2])

RatLe(a, b) == a[1] * b[2] <= b[1] * a[2]

\* np.maximum
RatMax(a, b) == IF RatLt(a, b) THEN b ELSE a

\* np.ceil(draw / q) * q
CeilToQ(draw, q) == RatMul(Rat(Ceil(RatDiv(draw, Rat(q)))), Rat(q))

\* low <= draw < high
InWindow(lo, draw, hi) == RatLe(lo, draw) /\ RatLt(draw, hi)

\* GMM1: the value the loop body tests and appends for the normal draw z
GMM1Draw(z, q) == IF q = NoQ THEN Rat(z) ELSE CeilToQ(Rat(z), q)

\* the acceptance test applied to the draw as it was before quantisation
GMM1AcceptsRaw(low, high, z, q) == InWindow(Rat(low), Rat(z), Rat(high))

\* GMM1: if low <= draw < high
GMM1Accepts(low, high, z, q) ==
    InWindow(Rat(low), GMM1Draw(z, q), Rat(high))

\* LGMM1: the value the loop body tests and appends for the normal draw z
LGMM1Draw(z, q) ==
    IF q = NoQ THEN Exp(z) ELSE RatMax(CeilToQ(Exp(z), q), Rat(q))

\* LGMM1: if exp_low <= draw < exp_high
LGMM1Accepts(low, high, z, q) ==
    InWindow(Exp(low), LGMM1Draw(z, q), Exp(high))

SamplerDraw(a, z) ==
    IF a.sampler = "GMM1" THEN GMM1Draw(z, a.q) ELSE LGMM1Draw(z, a.q)

SamplerAccepts(a, z) ==
    IF a.sampler = "GMM1" THEN GMM1Accepts(a.low, a.high, z, a.q)
    ELSE LGMM1Accepts(a.low, a.high, z, a.q)

InitSample ==
    /\ CallIdle
    /\ args \in [sampler : {"GMM1", "LGMM1"},
                 low : (0 - MaxDraw)..MaxDraw,
                 high : (0 - MaxDraw)..MaxDraw,
                 q : {NoQ} \cup 1..MaxQ,
                 n_samples : 1..MaxSamples]
    /\ out = << >>
    /\ stage = "in"

\* entry of the truncated branch: if low >= high: raise ValueError;
\* samples = []
SampleEnter ==
    /\ stage = "in"
    /\ IF args.low >= args.high
       THEN /\ out' = [samples |-> << >>, attempts |-> 0,
                       raised |-> "ValueError"]
            /\ stage' = "out"
       ELSE /\ out' = [samples |-> << >>, attempts |-> 0, raised |-> "none"]
            /\ stage' = "loop"
    /\ UNCHANGED <<args, callvars>>

\* one pass of while len(samples) < n_samples; rng.normal can return any
\* real whatever the active component is.  attempts counts the passes; the
\* code keeps no such count, the model stops at MaxAttempts + 1 passes.
SampleDraw ==
    /\ stage = "loop"
    /\ Len(out.samples) < args.n_samples
    /\ out.attempts <= MaxAttempts
    /\ \E z \in (0 - MaxDraw)..MaxDraw :
          out' = [out EXCEPT
                    !.attempts = @ + 1,
                    !.samples = IF SamplerAccepts(args, z)
                                THEN Append(@, SamplerDraw(args, z))
                                ELSE @]
    /\ UNCHANGED <<stage, args, callvars>>

\* the loop condition fails: return samples
SampleReturn ==
    /\ stage = "loop"
    /\ Len(out.samples) >= args.n_samples
    /\ stage' = "out"
    /\ UNCHANGED <<out, args, callvars>>

NextSample == SampleEnter \/ SampleDraw \/ SampleReturn

SpecSample == InitSample /\ [][NextSample]_vars

\* C11: the rejection loop of a truncated sampler makes at most MaxAttempts
\* passes, and once that many passes have gone by without filling the
\* samples it has stopped with a Degenerate error.
C11_AttemptsBounded ==
    stage \in {"loop", "out"} =>
        /\ out.attempts <= MaxAttempts
        /\ (out.attempts = MaxAttempts
              /\ Len(out.samples) < args.n_samples) =>
                (stage = "out" /\ out.raised = "Degenerate")

\* C12: every sample a truncated sampler returns lies in its window, the
\* quantised value being the one tested: low <= x < high for GMM1, and
\* x > 0 with exp(low) <= x < exp(high) for LGMM1.
C12_SamplesInWindow ==
    (stage = "out" /\ out.raised = "none") =>
        \A i \in DOMAIN out.samples :
            LET x == out.samples[i] IN
            IF args.sampler = "GMM1"
            THEN /\ RatLe(Rat(args.low), x) /\ RatLt(x, Rat(args.high))
                 /\ (args.q # NoQ => x[2] = 1 /\ x[1] % args.q = 0)
            ELSE /\ RatLt(Rat(0), x)
                 /\ RatLe(Exp(args.low), x) /\ RatLt(x, Exp(args.high))

\* C12 witness: a quantised GMM1 call returns a sample after a rejected
\* draw.
C12_Witness ==
    /\ stage = "out" /\ out.raised = "none"
    /\ args.sampler = "GMM1" /\ args.q = 2
    /\ Len(out.samples) = args.n_samples
    /\ out.attempts > Len(out.samples)

\* ------------------------------------------------------------------------
\* two suggest1 calls on one TreeParzenEstimator (specification SpecCalls)
\* ------------------------------------------------------------------------
\* the two calls
Calls == {1, 2}

\* what one call holds in its own frame before it chooses its fake ids
NoFrame == [fake_ids |-> << >>, memo |-> << >>,
            eval_new_ids |-> << >>, eval_memo |-> << >>]

\* each call comes with its new id and the tids of the docs it retained
InitCalls ==
    /\ CallIdle
    /\ args \in [Calls -> [new_id : 0..(MaxTid + 1),
                           tids : {<< >>} \cup {<<t>> : t \in Tids}]]
    /\ out = [c \in Calls |-> NoFrame]
    /\ stage = [c \in Calls |-> "fake"]

\* fake_ids = range(fake_id_0, ...); self.new_ids[:] = fake_ids
CallChooseFakeIds(c) ==
    /\ stage[c] = "fake"
    /\ out' = [out EXCEPT ![c].fake_ids = FakeIds(args[c].tids,
                                                  args[c].new_id)]
    /\ self_new_ids' = FakeIds(args[c].tids, args[c].new_id)
    /\ stage' = [stage EXCEPT ![c] = "memo"]
    /\ UNCHANGED <<args, n_startup_jobs, linear_forgetting, trials, pc,
                   new_ids, docs, fake_ids, raised, rval, trace>>

\* memo = {}; memo[self.observed_loss['idxs']] = tids: a dictionary of the
\* call's own frame
CallBuildMemo(c) ==
    /\ stage[c] = "memo"
    /\ out' = [out EXCEPT ![c].memo = args[c].tids]
    /\ stage' = [stage EXCEPT ![c] = "eval"]
    /\ UNCHANGED <<args, callvars>>

\* refine_no_grad(memo) and rec_eval(..., memo=memo): the graph is
\* evaluated under the call's memo, and llik's idxs_prod node reads the
\* instance's id list through self.s_new_ids
CallRecEval(c) ==
    /\ stage[c] = "eval"
    /\ out' = [out EXCEPT ![c].eval_new_ids = self_new_ids,
                          ![c].eval_memo = out[c].memo]
    /\ stage' = [stage EXCEPT ![c] = "done"]
    /\ UNCHANGED <<args, callvars>>

NextCalls ==
    \E c \in Calls :
        CallChooseFakeIds(c) \/ CallBuildMemo(c) \/ CallRecEval(c)

SpecCalls == InitCalls /\ [][NextCalls]_vars

\* C13: two calls interleaved on one instance never interfere: the
\* evaluation of each call uses exactly the fake ids and the memo that this
\* call built itself.
C13_NoInterference ==
    \A c \in DOMAIN stage :
        stage[c] = "done" =>
            /\ out[c].eval_new_ids = out[c].fake_ids
            /\ out[c].eval_memo = out[c].memo

\* ------------------------------------------------------------------------
\* the adaptive Parzen samplers (specification SpecAdapter)
\* ------------------------------------------------------------------------
\* observations of a parameter are Exp(e) for e in -MaxObsExp..MaxObsExp
MaxObsExp == 1

\* scope.log of one value: the inverse of Exp on the grid
Log(x) ==
    Rat(CHOOSE z \in (0 - MaxObsExp - 1)..(MaxObsExp + 1) : Exp(z) = x)

\* scope.log(obs)
LogObs(obs) == [i \in DOMAIN obs |-> Log(obs[i])]

\* each adapter: the observations it hands to adaptive_parzen_normal, the
\* sampler it returns, whether it passes low and high, whether it passes q
ap_uniform_sampler(obs) ==
    [parzen_obs |-> obs, sampler |-> "GMM1", window |-> TRUE, q |-> FALSE]

ap_quniform_sampler(obs) ==
    [parzen_obs |-> obs, sampler |-> "GMM1", window |-> TRUE, q |-> TRUE]

ap_loguniform_sampler(obs) ==
    [parzen_obs |-> LogObs(obs), sampler |-> "LGMM1", window |-> TRUE,
     q |-> FALSE]

ap_qloguniform_sampler(obs) ==
    [parzen_obs |-> obs, sampler |-> "LGMM1", window |-> TRUE, q |-> TRUE]

ap_normal_sampler(obs) ==
    [parzen_obs |-> obs, sampler |-> "GMM1", window |-> FALSE, q |-> FALSE]

ap_qnormal_sampler(obs) ==
    [parzen_obs |-> obs, sampler |-> "GMM1", window |-> FALSE, q |-> TRUE]

ap_loglognormal_sampler(obs) ==
    [parzen_obs |-> LogObs(obs), sampler |-> "LGMM1", window |-> FALSE,
     q |-> FALSE]

ap_qlognormal_sampler(obs) ==
    [parzen_obs |-> LogObs(obs), sampler |-> "LGMM1", window |-> FALSE,
     q |-> TRUE]

\* the names the adapters are registered under
ContinuousDists == {"uniform", "quniform", "loguniform", "qloguniform",
                    "normal", "qnormal", "lognormal", "qlognormal"}

LogDists == {"loguniform", "qloguniform", "lognormal", "qlognormal"}

\* adaptive_parzen_samplers[dist]
adaptive_parzen_samplers(dist, obs) ==
    CASE dist = "uniform" -> ap_uniform_sampler(obs)
      [] dist = "quniform" -> ap_quniform_sampler(obs)
      [] dist = "loguniform" -> ap_loguniform_sampler(obs)
      [] dist = "qloguniform" -> ap_qloguniform_sampler(obs)
      [] dist = "normal" -> ap_normal_sampler(obs)
      [] dist = "qnormal" -> ap_qnormal_sampler(obs)
      [] dist = "lognormal" -> ap_loglognormal_sampler(obs)
      [] dist = "qlognormal" -> ap_qlognormal_sampler(obs)

\* the filtered observations of a parameter, as stored in the trials
ObsVals == {Exp(e) : e \in (0 - MaxObsExp)..MaxObsExp}

InitAdapter ==
    /\ CallIdle
    /\ \E n \in 0..MaxObs :
          args \in [dist : ContinuousDists, obs : [1..n -> ObsVals]]
    /\ out = << >>
    /\ stage = "in"

\* the adapter of args.dist is applied to the observations
CallAdapter ==
    /\ stage = "in"
    /\ out' = adaptive_parzen_samplers(args.dist, args.obs)
    /\ stage' = "out"
    /\ UNCHANGED <<args, callvars>>

NextAdapter == CallAdapter

SpecAdapter == InitAdapter /\ [][NextAdapter]_vars

\* C14: every log-scale adapter hands the logarithms of the observations,
\* never the observations themselves, to adaptive_parzen_normal.
C14_LogAdaptersPassLog ==
    (stage = "out" /\ args.dist \in LogDists) =>
        /\ Len(out.parzen_obs) = Len(args.obs)
        /\ \A i \in DOMAIN args.obs :
              /\ Exp(out.parzen_obs[i][1]) = args.obs[i]
              /\ out.parzen_obs[i][2] = 1

\* ------------------------------------------------------------------------
\* refine_no_grad (specification SpecRefine)
\* ------------------------------------------------------------------------
\* the uniform families have low in 0..MaxLow and high = low + h/2 for h in
\* 1..MaxSpan; the log-uniform families have low < high in -MaxLow..MaxLow
MaxLow == 1

MaxSpan == 3

\* refine_no_grad(self, memo, BIG=1e15, MEDIUM=1e4)
MEDIUM == 10000

\* 1 / 1e-8, the offset inside neg_EI's snap
EpsDen == 100000000

\* the lower bound 1e-12 of the log-normal families; every point of the
\* model is a multiple of 1/2, and every bound in (0, 1/2) orders those
\* points alike
LogNormalLBound == <<1, 1000>>

UniformDists == {"uniform", "quniform", "loguniform", "qloguniform"}

NormalDists == {"normal", "qnormal", "lognormal", "qlognormal"}

\* 'log' in dist
IsLogDist(dist) == dist \in LogDists

\* 'q' in dist
IsQDist(dist) == dist \in {"quniform", "qloguniform", "qnormal", "qlognormal"}

\* lbounds.append(...)
LBound(p) ==
    IF p.dist \in UniformDists
    THEN IF IsLogDist(p.dist) THEN Exp(p.low[1]) ELSE p.low
    ELSE IF IsLogDist(p.dist) THEN LogNormalLBound ELSE Rat(0 - MEDIUM)

\* ubounds.append(...)
UBound(p) ==
    IF p.dist \in UniformDists
    THEN IF IsLogDist(p.dist) THEN Exp(p.high[1]) ELSE p.high
    ELSE Rat(MEDIUM)

\* qlevels.append(...)
QLevel(p) == IF IsQDist(p.dist) THEN p.q ELSE NoQ

\* np.ceil(1e-8 + y) for a rational y
CeilPlusEps(y) ==
    LET f == y[1] \div y[2]
        r == y[1] % y[2]
    IN  IF r * EpsDen + y[2] <= y[2] * EpsDen THEN f + 1 ELSE f + 2

\* neg_EI: pti if qi is None else np.ceil(1e-8 + pti / qi) * qi
SnapEval(pti, qi) ==
    IF qi = NoQ THEN pti
    ELSE RatMul(Rat(CeilPlusEps(RatDiv(pti, Rat(qi)))), Rat(qi))

\* after the optimiser: pti if qi is None else np.ceil(pti / qi) * qi
SnapFound(pti, qi) == IF qi = NoQ THEN pti ELSE CeilToQ(pti, qi)

\* the nids refine_no_grad optimises, in the order of the loop: those that
\* have a value in the sample and whose dist is not randint
NidsToOptimize(space, vals) ==
    LET Keep(nid) == vals[nid] # << >> /\ space[nid].dist \in ContinuousDists
    IN  SelectSeq([i \in 1..Len(space) |-> i], Keep)

\* any(pti < lbi ...) or any(pti > ubi ...)
OutOfBounds(space, nids, pt) ==
    \E i \in DOMAIN nids :
        \/ RatLt(pt[i], LBound(space[nids[i]]))
        \/ RatLt(UBound(space[nids[i]]), pt[i])

\* neg_EI(pt): whether it returns BIG, and otherwise the point the two
\* likelihoods are evaluated at
NegEIPoint(space, nids, pt) ==
    IF OutOfBounds(space, nids, pt) THEN [big |-> TRUE, pt |-> << >>]
    ELSE [big |-> FALSE,
          pt |-> [i \in DOMAIN nids |->
                    SnapEval(pt[i], QLevel(space[nids[i]]))]]

\* the position of nid in nids
PosOf(nids, nid) == CHOOSE i \in DOMAIN nids : nids[i] = nid

\* every coordinate that is inside its own bounds is written back
WriteBackInBounds(space, nids, memo, found) ==
    [nid \in DOMAIN memo |->
        IF \E i \in DOMAIN nids : nids[i] = nid
        THEN LET i == PosOf(nids, nid) IN
             IF RatLt(found[i], LBound(space[nid]))
                  \/ RatLt(UBound(space[nid]), found[i])
             THEN memo[nid]
             ELSE <<SnapFound(found[i], QLevel(space[nid]))>>
        ELSE memo[nid]]

\* the memo refine_no_grad returns once the optimiser has returned found
WriteBack(space, nids, memo, found) ==
    IF OutOfBounds(space, nids, found) THEN memo
    ELSE [nid \in DOMAIN memo |->
            IF \E i \in DOMAIN nids : nids[i] = nid
            THEN <<SnapFound(found[PosOf(nids, nid)], QLevel(space[nid]))>>
            ELSE memo[nid]]

\* the multiples of 1/2 from below lo to above hi
HalfPoints(lo, hi) ==
    {Norm(<<k, 2>>) :
        k \in (((2 * lo[1]) \div lo[2]) - 1)..(Ceil(<<2 * hi[1], hi[2]>>) + 1)}

\* the values a sampler or the optimiser can produce for a parameter
PointsOf(p) ==
    IF p.dist \in UniformDists THEN HalfPoints(LBound(p), UBound(p))
    ELSE {Rat(0 - MEDIUM - 1), <<0 - 1, 2>>, Rat(0), <<1, 2>>, Rat(1),
          Rat(MEDIUM + 1)}

IsMultiple(x, q) == q = NoQ \/ (x[2] = 1 /\ x[1] % q = 0)

\* the values the posterior sampler of a parameter can return: inside the
\* window for the uniform families, positive for the log families, a
\* multiple of q for the quantised ones
SamplesOf(p) ==
    {x \in PointsOf(p) :
        /\ IsMultiple(x, QLevel(p))
        /\ p.dist \in UniformDists =>
              RatLe(LBound(p), x) /\ RatLt(x, UBound(p))
        /\ IsLogDist(p.dist) => RatLt(Rat(0), x)}

\* the parameters of the first node of the search space
ParamConfigs ==
    {p \in  [dist : ContinuousDists,
             low : {<<h, 2>> : h \in (0 - 2 * MaxLow)..(2 * MaxLow)},
             high : {<<h, 2>> : h \in (0 - 2 * MaxLow)..(2 * MaxLow + MaxSpan)},
             q : {NoQ} \cup 1..MaxQ] :
        /\ (p.q # NoQ) = IsQDist(p.dist)
        /\ p.dist \in NormalDists => p.low = <<0, 2>> /\ p.high = <<0, 2>>
        /\ p.dist \in {"uniform", "quniform"} =>
              /\ p.low[1] >= 0 /\ p.low[1] % 2 = 0
              /\ p.high[1] > p.low[1] /\ p.high[1] <= p.low[1] + MaxSpan
        /\ p.dist \in {"loguniform", "qloguniform"} =>
              /\ p.low[1] % 2 = 0 /\ p.high[1] % 2 = 0
              /\ p.low[1] < p.high[1] /\ p.high[1] <= 2 * MaxLow}

\* the second node: uniform(0, 1), which a conditional space may leave
\* without a value; the third node: a randint
CoParam == [dist |-> "uniform", low |-> Rat(0), high |-> Rat(1), q |-> NoQ]

RandintParam == [dist |-> "randint", low |-> Rat(0), high |-> Rat(0),
                 q |-> NoQ]

\* the search space and the sample drawn from the posterior below gamma
InitRefine ==
    /\ CallIdle
    /\ \E c \in ParamConfigs :
       \E x \in SamplesOf([c EXCEPT !.low = Norm(c.low),
                                    !.high = Norm(c.high)]) :
       \E v2 \in {<< >>} \cup {<<y>> : y \in SamplesOf(CoParam)} :
       \E r \in 0..1 :
          args = [space |-> <<[c EXCEPT !.low = Norm(c.low),
                                        !.high = Norm(c.high)],
                              CoParam, RandintParam>>,
                  vals |-> <<<<x>>, v2, <<Rat(r)>>>>]
    /\ out = << >>
    /\ stage = "in"

\* refine_no_grad up to the definition of neg_EI: the n_EI_candidates
\* guard, the bounds and q levels, the check of the sample against them
RefineSetup ==
    /\ stage = "in"
    /\ LET nids == NidsToOptimize(args.space, args.vals)
           all_vals == [i \in DOMAIN nids |-> args.vals[nids[i]][1]]
           frame == [memo |-> args.vals, nids |-> nids, found |-> << >>,
                     neg_EI |-> [big |-> FALSE, pt |-> << >>],
                     raised |-> "none"]
       IN  IF n_EI_candidates > 1
           THEN /\ out' = [frame EXCEPT !.raised = "NotImplementedError"]
                /\ stage' = "out"
           ELSE IF OutOfBounds(args.space, nids, all_vals)
           THEN /\ out' = [frame EXCEPT !.raised = "ValueError"]
                /\ stage' = "out"
           ELSE /\ out' = frame
                /\ stage' = "powell"
    /\ UNCHANGED <<args, callvars>>

\* found = scipy.optimize.fmin_powell(neg_EI, all_vals, maxfun=500): the
\* optimiser returns some point, together with neg_EI's evaluation of it
FminPowell ==
    /\ stage = "powell"
    /\ \E found \in [DOMAIN out.nids ->
                        UNION {PointsOf(args.space[nid]) :
                                 nid \in Range(out.nids)}] :
          /\ \A i \in DOMAIN out.nids :
                found[i] \in PointsOf(args.space[out.nids[i]])
          /\ out' = [out EXCEPT
                       !.found = found,
                       !.neg_EI = NegEIPoint(args.space, out.nids, found)]
    /\ stage' = "found"
    /\ UNCHANGED <<args, callvars>>

\* the check of found against the bounds, the final snap and the copy
\* into the memo
RefineReturn ==
    /\ stage = "found"
    /\ out' = [out EXCEPT
                 !.memo = WriteBack(args.space, out.nids, out.memo,
                                    out.found)]
    /\ stage' = "out"
    /\ UNCHANGED <<args, callvars>>

NextRefine == RefineSetup \/ FminPowell \/ RefineReturn

SpecRefine == InitRefine /\ [][NextRefine]_vars

\* the optimiser has returned and its point was inside all the bounds
Refined ==
    /\ stage = "out" /\ out.raised = "none"
    /\ \A i \in DOMAIN out.nids :
          /\ RatLe(LBound(args.space[out.nids[i]]), out.found[i])
          /\ RatLe(out.found[i], UBound(args.space[out.nids[i]]))

\* C15: the value written back to the memo for a coordinate equals the
\* value at which neg_EI evaluated the objective for the same raw
\* coordinate, also when that coordinate is an exact multiple of q.
C15_WrittenIsEvaluated ==
    Refined =>
        /\ ~out.neg_EI.big
        /\ \A i \in DOMAIN out.nids :
              out.memo[out.nids[i]] = <<out.neg_EI.pt[i]>>

\* some coordinate of the point the optimiser returned is below its lower
\* bound or above its upper bound
FoundEscaped ==
    /\ stage = "out" /\ out.found # << >>
    /\ \E i \in DOMAIN out.nids :
          \/ RatLt(out.found[i], LBound(args.space[out.nids[i]]))
          \/ RatLt(UBound(args.space[out.nids[i]]), out.found[i])

\* C16: when a coordinate of the optimiser's point is out of its bounds,
\* refine_no_grad raises nothing and every parameter keeps the value of the
\* pre-refinement sample; a randint parameter keeps it in every case.
C16_FallbackKeepsSample ==
    /\ FoundEscaped => (out.raised = "none" /\ out.memo = args.vals)
    /\ stage # "in" =>
          \A nid \in DOMAIN args.space :
              args.space[nid].dist = "randint" =>
                  out.memo[nid] = args.vals[nid]

\* C16 witness: two coordinates are optimised, the first comes back inside
\* its bounds and away from its sample, the second comes back above its
\* upper bound.
C16_Witness ==
    /\ FoundEscaped
    /\ Len(out.nids) = 2
    /\ RatLe(LBound(args.space[1]), out.found[1])
    /\ RatLe(out.found[1], UBound(args.space[1]))
    /\ <<out.found[1]>> # args.vals[1]
    /\ RatLt(UBound(args.space[2]), out.found[2])
    /\ args.space[3].dist = "randint"

\* C18: every value written back for a refined parameter lies within the
\* bounds of that parameter, also after the final snap to a multiple of q.
C18_WrittenWithinBounds ==
    Refined =>
        \A i \in DOMAIN out.nids :
            LET nid == out.nids[i] IN
            /\ RatLe(LBound(args.space[nid]), out.memo[nid][1])
            /\ RatLe(out.memo[nid][1], UBound(args.space[nid]))

\* ------------------------------------------------------------------------
\* idxs_prod (specification SpecIdxsProd)
\* ------------------------------------------------------------------------
\* tids are 0..MaxIdx
MaxIdx == 3

\* full_idxs has at most MaxFull elements
MaxFull == 3

\* the values of a log-likelihood
LlikVals == {0 - 1, 2}

\* the sequences over S without a repeated element, of length 0..n
InjSeqsUpTo(S, n) ==
    UNION {{f \in [1..k -> S] : \A i, j \in 1..k : f[i] = f[j] => i = j} :
             k \in 0..n}

\* for ii, ll in zip(idxs, llik): rval[pos_of_tid[ii]] += ll, as seen from
\* the position of tid t
RECURSIVE ZipSumAt(_, _, _)
ZipSumAt(idxs, llik, t) ==
    IF idxs = << >> \/ llik = << >> THEN 0
    ELSE (IF Head(idxs) = t THEN Head(llik) ELSE 0)
           + ZipSumAt(Tail(idxs), Tail(llik), t)

RECURSIVE NidSumAt(_, _, _)
NidSumAt(by_nid, nids, t) ==
    IF nids = {} THEN 0
    ELSE LET nid == CHOOSE n \in nids : TRUE
         IN  ZipSumAt(by_nid[nid].idxs, by_nid[nid].llik, t)
               + NidSumAt(by_nid, nids \ {nid}, t)

\* idxs_prod(full_idxs, idxs_by_nid, llik_by_nid); by_nid[nid] holds
\* idxs_by_nid[nid] and llik_by_nid[nid]
idxs_prod(full_idxs, by_nid) ==
    IF Cardinality(Range(full_idxs)) # Len(full_idxs)
    THEN [raised |-> "AssertionError", rval |-> << >>]
    ELSE IF \E nid \in DOMAIN by_nid :
              \/ \E i \in DOMAIN by_nid[nid].idxs : ~(by_nid[nid].idxs[i] > 1)
              \/ Cardinality(Range(by_nid[nid].idxs)) # Len(by_nid[nid].idxs)
              \/ Len(by_nid[nid].idxs) # Len(by_nid[nid].llik)
    THEN [raised |-> "AssertionError", rval |-> << >>]
    ELSE IF \E nid \in DOMAIN by_nid :
              ~(Range(by_nid[nid].idxs) \subseteq Range(full_idxs))
    THEN [raised |-> "KeyError", rval |-> << >>]
    ELSE [raised |-> "none",
          rval |-> [pos \in DOMAIN full_idxs |->
                      NidSumAt(by_nid, DOMAIN by_nid, full_idxs[pos])]]

\* full_idxs without duplicates, and for each of two nodes idxs drawn from
\* full_idxs without duplicates and llik of the same length
InitIdxsProd ==
    /\ CallIdle
    /\ \E full \in InjSeqsUpTo(0..MaxIdx, MaxFull) :
       \E ia \in InjSeqsUpTo(Range(full), 2) :
       \E ib \in InjSeqsUpTo(Range(full), 1) :
       \E la \in [DOMAIN ia -> LlikVals] :
       \E lb \in [DOMAIN ib -> LlikVals] :
          args = [full_idxs |-> full,
                  by_nid |-> [nid \in {"node_a", "node_b"} |->
                                IF nid = "node_a"
                                THEN [idxs |-> ia, llik |-> la]
                                ELSE [idxs |-> ib, llik |-> lb]]]
    /\ out = << >>
    /\ stage = "in"

CallIdxsProd ==
    /\ stage = "in"
    /\ out' = idxs_prod(args.full_idxs, args.by_nid)
    /\ stage' = "out"
    /\ UNCHANGED <<args, callvars>>

NextIdxsProd == CallIdxsProd

SpecIdxsProd == InitIdxsProd /\ [][NextIdxsProd]_vars

\* the llik value the node has at tid t, 0 when it is not active there
LlikAt(node, t) ==
    IF \E i \in DOMAIN node.idxs : node.idxs[i] = t
    THEN node.llik[CHOOSE i \in DOMAIN node.idxs : node.idxs[i] = t]
    ELSE 0

\* C17: for full_idxs without duplicates and per-node idxs and llik of
\* equal length with all idxs in full_idxs, idxs_prod returns one entry per
\* element of full_idxs, in that order, the entry of tid t being the sum
\* over the nodes of their llik at t, and 0 where no node is active.
C17_SumsPerTid ==
    stage = "out" =>
        /\ out.raised = "none"
        /\ Len(out.rval) = Len(args.full_idxs)
        /\ \A pos \in DOMAIN out.rval :
              out.rval[pos] =
                  LlikAt(args.by_nid["node_a"], args.full_idxs[pos])
                    + LlikAt(args.by_nid["node_b"], args.full_idxs[pos])

====
